---- MODULE Spec2Model ----
\* LargeDownload (src/index.js): one load() as a state machine. The program's
\* state is the closure of load() (retriesDone, the promise) and the closure of
\* every tryDownload() call (one "attempt": its readable, its writable, its
\* timer, its bar, its two size counters). Every listener the code registers is
\* one action; the collaborators (got's stream, fs.WriteStream, the timer) decide
\* when a listener runs.
EXTENDS Integers, Sequences, FiniteSets, TLC

\* ---------------------------------------------------------------- bounds
MaxRetries == 2
MaxSize == 1

\* ---------------------------------------------------------------- JS values
\* undefined (an option that was not given, a header that was not sent)
Undefined == -1
\* the result of parseInt(undefined, 10)
NaN == -2
\* minSizeToShowProgress: Infinity; above every size of the model
Infinity == 1000000
\* the timeout of the 'download timeout' test
TimeoutMs == 500
\* the timeout 'should initialize with default values' expects
DefaultTimeout == 20000

\* JS truthiness of a number-or-undefined value
Truthy(x) == x # Undefined /\ x # NaN /\ x # 0

\* JS `a > b` on numbers: false as soon as one side is NaN
JsGt(a, b) == a # NaN /\ b # NaN /\ a > b

\* JS `a !== b` on numbers: NaN differs from everything, itself included
JsNotEq(a, b) == a = NaN \/ b = NaN \/ a # b

\* the decimal text of a content-length header, and parseInt(text, 10)
Digits == <<"0", "1", "2", "3", "4", "5", "6", "7", "8", "9">>

HeaderText(n) == Digits[n + 1]

NoHeader == "undefined"

Headers == {NoHeader} \cup {HeaderText(n) : n \in 0..MaxSize}

ParseInt(s) ==
    IF \E n \in 0..9 : Digits[n + 1] = s
    THEN CHOOSE n \in 0..9 : Digits[n + 1] = s
    ELSE NaN

\* ---------------------------------------------------------------- errors
\* An Error object, by the parts of its message.
Err(kind, p1, p2) == [kind |-> kind, p1 |-> p1, p2 |-> p2]

\* got's error on the stream (e.g. 'Response code 404 (Not Found)')
StreamError == Err("stream", 0, 0)

\* fs.WriteStream's error
WriteError == Err("write", 0, 0)

\* `Download timeout (${_this.timeout}) reached`
TimeoutError(t) == Err("Download timeout (p1) reached", t, 0)

\* the two sizes of the message in each other's place
SizeMismatchErrorSwapped(downloaded, declared) ==
    Err("Downloaded file size (p1) doesn't match content-length header (p2) in the server response",
        declared, downloaded)

\* `Downloaded file size (${downloadedSize}) doesn't match "content-length"
\*  header (${declaredSize}) in the server response`
SizeMismatchError(downloaded, declared) ==
    Err("Downloaded file size (p1) doesn't match content-length header (p2) in the server response",
        downloaded, declared)

\* `Could not download ${_this.link} in ${retriesDone} attempts:\n${err.message}`
RejectMessage(n, err) == [attempts |-> n, message |-> err]

\* ---------------------------------------------------------------- state
VARIABLES
    opts,                   \* the options object the constructor was given
    retries,                \* this.retries
    timeout,                \* this.timeout
    onRetry,                \* typeof this.onRetry === 'function'
    minSizeToShowProgress,  \* this.minSizeToShowProgress
    isTTY,                  \* process.stdout.isTTY
    loaded,                 \* load() has been called
    retriesDone,            \* let retriesDone
    attempts,               \* the closures of the tryDownload() calls, in order
    settled,                \* the promise: "pending", "resolved", "rejected"
    rejection,              \* the message the promise was rejected with
    startedAtReject         \* tryDownload() calls made when it was rejected

vars == <<opts, retries, timeout, onRetry, minSizeToShowProgress, isTTY, loaded,
          retriesDone, attempts, settled, rejection, startedAtReject>>

config == <<opts, retries, timeout, onRetry, minSizeToShowProgress, isTTY>>

promise == <<settled, rejection, startedAtReject>>

\* ---------------------------------------------------------------- constructor
\* this.retries = opts.hasOwnProperty('retries') ? opts.retries : 1
CtorRetries(opt) == IF opt = Undefined THEN 1 ELSE opt

\* this.timeout = opts.timeout
CtorTimeout(opt) == opt

\* this.minSizeToShowProgress = opts.minSizeToShowProgress || 0
CtorMinSize(opt) == IF Truthy(opt) THEN opt ELSE 0

\* The option objects load() is explored with. Up to one retry: every
\* combination of timeout, minSizeToShowProgress and isTTY with onRetry given,
\* and the defaults alone without onRetry. A larger retry budget: retries and
\* onRetry given as in the 'retries' tests, with a timeout or with a TTY, not
\* both.
Options ==
    { o \in [ retries : {Undefined} \cup 0..MaxRetries,
              timeout : {Undefined, TimeoutMs},
              onRetry : BOOLEAN,
              minSizeToShowProgress : {Undefined, Infinity},
              isTTY : BOOLEAN ] :
        /\ ~o.onRetry =>
              /\ o.retries = Undefined
              /\ o.timeout = Undefined
              /\ o.minSizeToShowProgress = Undefined
        /\ o.retries > 1 =>
              /\ o.minSizeToShowProgress = Undefined
              /\ o.timeout = Undefined \/ ~o.isTTY }

Init ==
    /\ \E o \in Options :
          /\ opts = [retries |-> o.retries, timeout |-> o.timeout,
                     onRetry |-> o.onRetry,
                     minSizeToShowProgress |-> o.minSizeToShowProgress]
          /\ retries = CtorRetries(o.retries)
          /\ timeout = CtorTimeout(o.timeout)
          /\ onRetry = o.onRetry
          /\ minSizeToShowProgress = CtorMinSize(o.minSizeToShowProgress)
          /\ isTTY = o.isTTY
    /\ loaded = FALSE
    /\ retriesDone = 0
    /\ attempts = <<>>
    /\ settled = "pending"
    /\ rejection = RejectMessage(0, StreamError)
    /\ startedAtReject = 0

\* ---------------------------------------------------------------- tryDownload
\* The closure of one tryDownload() call right after it returns: the locals of
\* lines 56-59, the two streams of lines 61-62, the listeners of lines 101-136
\* and the pipe of line 138.
NewAttempt ==
    [ downloadTimer   |-> "undefined",  \* "undefined", "armed", "spent" (cleared
                                        \* or fired)
      bar             |-> FALSE,        \* new ProgressBar(...) has run
      declaredSize    |-> 0,
      downloadedSize  |-> 0,
      readable        |-> "created",    \* "created", "requested", "responded",
                                        \* "ended", "errored", "aborted"
      piped           |-> TRUE,         \* readable.pipe(writable) is in place
      writable        |-> "open",       \* "open", "ending", "finished",
                                        \* "errored", "closed"
      finishListener  |-> TRUE,         \* onFinish listens to 'finish'
      closeTry        |-> 0,            \* tryDownload listeners on 'close'
      closeResolve    |-> 0,            \* resolve listeners on 'close'
      cleanups        |-> 0,            \* calls of cleanup()
      terminates      |-> 0,            \* calls of bar.terminate()
      ticked          |-> FALSE,        \* bar.tick() has been called
      tickAfterTerminate |-> FALSE,     \* bar.tick() was called after terminate()
      succeeded       |-> FALSE,        \* onFinish took the success path
      fails           |-> <<>> ]        \* the onError(err) calls: [err, to], `to`
                                        \* being where err went: "onRetry",
                                        \* "retry" (no onRetry function),
                                        \* "reject", or "ignored" (reject() of a
                                        \* promise already settled)

\* writable.end(): starts the flush of an open stream, nothing otherwise
End(w) == IF w = "open" THEN "ending" ELSE w

\* clearTimeout(downloadTimer): a pending timer never fires
ClearTimer(t) == IF t = "armed" THEN "spent" ELSE t

\* cleanup() without writable.removeListener('finish', onFinish)
cleanupKeepsFinishListener(at) ==
    [at EXCEPT !.piped = FALSE,
               !.writable = End(@),
               !.downloadTimer = ClearTimer(@),
               !.terminates = IF at.bar THEN @ + 1 ELSE @,
               !.cleanups = @ + 1]

\* cleanup(), lines 64-74
cleanup(at) ==
    [at EXCEPT !.piped = FALSE,
               !.finishListener = FALSE,
               !.writable = End(@),
               !.downloadTimer = ClearTimer(@),
               !.terminates = IF at.bar THEN @ + 1 ELSE @,
               !.cleanups = @ + 1]

\* declaredSize and downloadedSize are read by onFinish alone (line 90): once a
\* failure has detached onFinish nothing can read them again, and the closure's
\* two counters are no longer followed.
Forget(at) == [at EXCEPT !.declaredSize = 0, !.downloadedSize = 0]

\* ++retriesDone <= _this.retries, line 79
ShouldRetry(done, max) == done <= max

\* typeof _this.onRetry === 'function' && _this.onRetry(err), line 80
RetryNotice(isFunction) == IF isFunction THEN "onRetry" ELSE "retry"

\* reject(...) of lines 83-84: a promise settles once, later calls do nothing
RejectNotice(state) == IF state = "pending" THEN "reject" ELSE "ignored"

\* onError(err), lines 76-86, for attempt a whose closure is `at` when it runs
onError(a, at, err) ==
    LET c == Forget(cleanup(at))
        done == retriesDone + 1
    IN /\ retriesDone' = done
       /\ IF ShouldRetry(done, retries)
          THEN /\ attempts' = [attempts EXCEPT ![a] =
                     [c EXCEPT !.fails = Append(@, [err |-> err, to |-> RetryNotice(onRetry)]),
                               !.closeTry = @ + 1]]
               /\ UNCHANGED promise
          ELSE /\ attempts' = [attempts EXCEPT ![a] =
                     [c EXCEPT !.fails = Append(@, [err |-> err, to |-> RejectNotice(settled)])]]
               /\ settled' = IF settled = "pending" THEN "rejected" ELSE settled
               /\ rejection' = IF settled = "pending" THEN RejectMessage(done, err)
                                                      ELSE rejection
               /\ startedAtReject' = IF settled = "pending" THEN Len(attempts)
                                                            ELSE startedAtReject
       /\ UNCHANGED <<loaded, config>>

\* the comparison alone, without the `declaredSize &&` guard
SizeMismatchUnguarded(declared, downloaded) == JsNotEq(declared, downloaded)

\* declaredSize && declaredSize !== downloadedSize, line 90
SizeMismatch(declared, downloaded) ==
    Truthy(declared) /\ JsNotEq(declared, downloaded)

\* onFinish() calling resolve() itself instead of leaving it to 'close'
onFinishResolvesAtFinish(a, at) ==
    IF SizeMismatch(at.declaredSize, at.downloadedSize)
    THEN onError(a, at, SizeMismatchError(at.downloadedSize, at.declaredSize))
    ELSE /\ attempts' = [attempts EXCEPT ![a] = [cleanup(at) EXCEPT !.succeeded = TRUE]]
         /\ settled' = IF settled = "pending" THEN "resolved" ELSE settled
         /\ UNCHANGED <<retriesDone, rejection, startedAtReject, loaded, config>>

\* onFinish(), lines 88-99
onFinish(a, at) ==
    IF SizeMismatch(at.declaredSize, at.downloadedSize)
    THEN onError(a, at, SizeMismatchError(at.downloadedSize, at.declaredSize))
    ELSE /\ attempts' = [attempts EXCEPT ![a] =
                            [cleanup(at) EXCEPT !.closeResolve = @ + 1,
                                                !.succeeded = TRUE]]
         /\ UNCHANGED <<retriesDone, promise, loaded, config>>

\* ---------------------------------------------------------------- actions
\* load(): the promise executor runs tryDownload() once (line 141)
Load ==
    /\ ~loaded
    /\ loaded' = TRUE
    /\ attempts' = <<NewAttempt>>
    /\ UNCHANGED <<retriesDone, promise, config>>

\* readable 'error' -> onError(e), line 101. got emits it at most once, at any
\* moment before the stream has ended, also after req.abort().
ReadableError(a) ==
    /\ attempts[a].readable \in {"created", "requested", "responded", "aborted"}
    /\ onError(a, [attempts[a] EXCEPT !.readable = "errored"], StreamError)

\* writable 'error' -> onError(e), line 102. The stream is destroyed: it emits
\* no 'finish' afterwards, and 'close' once the descriptor is released.
WritableError(a) ==
    /\ attempts[a].writable \in {"open", "ending", "finished"}
    /\ onError(a, [attempts[a] EXCEPT !.writable = "errored"], WriteError)

\* the 'request' listener registered whether or not a timeout is configured
ReadableRequestUnconditional(a) ==
    /\ attempts[a].readable = "created"
    /\ attempts' = [attempts EXCEPT ![a] =
          [@ EXCEPT !.readable = "requested", !.downloadTimer = "armed"]]
    /\ UNCHANGED <<retriesDone, promise, loaded, config>>

\* readable 'request' -> the timer is armed, lines 104-111. The listener exists
\* only if (_this.timeout). The stream dispatches one request: no redirect hop,
\* and no retry inside got (httpOptions.retries = 0, line 41).
ReadableRequest(a) ==
    /\ Truthy(timeout)
    /\ attempts[a].readable = "created"
    /\ attempts' = [attempts EXCEPT ![a] =
          [@ EXCEPT !.readable = "requested", !.downloadTimer = "armed"]]
    /\ UNCHANGED <<retriesDone, promise, loaded, config>>

\* the timer's callback, lines 106-109: req.abort(), then onError(timeout)
TimerFires(a) ==
    /\ attempts[a].downloadTimer = "armed"
    /\ onError(a, [attempts[a] EXCEPT
                      !.downloadTimer = "spent",
                      !.readable = IF @ \in {"requested", "responded"}
                                   THEN "aborted" ELSE @],
               TimeoutError(timeout))

\* the threshold compared with >= instead of >
doShowProgressBarAtThreshold(tty, declared, min) ==
    tty /\ declared # NaN /\ min # NaN /\ declared >= min

\* const doShowProgressBar = process.stdout.isTTY && declaredSize > min, line 117
doShowProgressBar(tty, declared, min) == tty /\ JsGt(declared, min)

\* readable 'response', lines 113-134; got emits it once the request is sent
ReadableResponse(a, header) ==
    /\ attempts[a].readable = IF Truthy(timeout) THEN "requested" ELSE "created"
    /\ LET declared == ParseInt(header)
       IN attempts' = [attempts EXCEPT ![a] =
             [@ EXCEPT !.readable = "responded",
                       !.declaredSize = IF attempts[a].finishListener THEN declared ELSE @,
                       !.bar = doShowProgressBar(isTTY, declared, minSizeToShowProgress)]]
    /\ UNCHANGED <<retriesDone, promise, loaded, config>>

\* res 'data', lines 128-133. The listener stays on the response after
\* cleanup(); downloadedSize is read by onFinish alone, so once onFinish is
\* detached the counter is no longer followed.
ResponseData(a, len) ==
    /\ attempts[a].readable = "responded"
    /\ attempts[a].finishListener => attempts[a].downloadedSize + len <= MaxSize
    /\ attempts' = [attempts EXCEPT ![a] =
          [@ EXCEPT !.downloadedSize = IF attempts[a].finishListener THEN @ + len ELSE @,
                    !.ticked = @ \/ attempts[a].bar,
                    !.tickAfterTerminate =
                        @ \/ (attempts[a].bar /\ attempts[a].terminates > 0)]]
    /\ UNCHANGED <<retriesDone, promise, loaded, config>>

\* the readable ends; the pipe of line 138, if still in place, ends the writable
ReadableEnd(a) ==
    /\ attempts[a].readable = "responded"
    /\ attempts' = [attempts EXCEPT ![a] =
          [@ EXCEPT !.readable = "ended",
                    !.writable = IF attempts[a].piped THEN End(@) ELSE @]]
    /\ UNCHANGED <<retriesDone, promise, loaded, config>>

\* writable 'finish' (all bytes flushed) -> onFinish if it still listens, line 136
WritableFinish(a) ==
    /\ attempts[a].writable = "ending"
    /\ LET at == [attempts[a] EXCEPT !.writable = "finished"]
       IN IF attempts[a].finishListener
          THEN onFinish(a, at)
          ELSE /\ attempts' = [attempts EXCEPT ![a] = at]
               /\ UNCHANGED <<retriesDone, promise, loaded, config>>

\* the 'close' listeners of line 81 never running
NoCopies(n, x) == <<>>

\* n copies of x
Copies(n, x) == [i \in 1..n |-> x]

\* writable 'close' (descriptor released): every listener of lines 81 and 98
\* runs once: resolve() settles the promise, tryDownload() opens a new attempt
WritableClose(a) ==
    /\ attempts[a].writable \in {"finished", "errored"}
    /\ LET at == attempts[a]
       IN /\ attempts' = [attempts EXCEPT ![a].writable = "closed"]
                           \o Copies(at.closeTry, NewAttempt)
          /\ settled' = IF at.closeResolve > 0 /\ settled = "pending"
                        THEN "resolved" ELSE settled
    /\ UNCHANGED <<retriesDone, rejection, startedAtReject, loaded, config>>

Next ==
    \/ Load
    \/ \E a \in DOMAIN attempts : ReadableError(a)
    \/ \E a \in DOMAIN attempts : WritableError(a)
    \/ \E a \in DOMAIN attempts : ReadableRequest(a)
    \/ \E a \in DOMAIN attempts : TimerFires(a)
    \/ \E a \in DOMAIN attempts, h \in Headers : ReadableResponse(a, h)
    \/ \E a \in DOMAIN attempts, len \in 1..MaxSize : ResponseData(a, len)
    \/ \E a \in DOMAIN attempts : ReadableEnd(a)
    \/ \E a \in DOMAIN attempts : WritableFinish(a)
    \/ \E a \in DOMAIN attempts : WritableClose(a)

Spec == Init /\ [][Next]_vars

\* The event loop runs every callback that is due: as long as a stream or timer
\* of some attempt has an event to deliver, one is delivered. Every attempt then
\* gets a stream error, a writer error, a timer expiry or a 'finish', and every
\* writer told to end gets its 'finish' and its 'close'.
FairSpec == Spec /\ WF_vars(Next)

\* ---------------------------------------------------------------- readings
Started == Len(attempts)

\* the onError calls of attempt a that went to `to`
Sent(a, to) == {i \in DOMAIN attempts[a].fails : attempts[a].fails[i].to = to}

\* number of this.onRetry(err) calls so far
RECURSIVE OnRetryCount(_)
OnRetryCount(n) ==
    IF n = 0 THEN 0 ELSE OnRetryCount(n - 1) + Cardinality(Sent(n, "onRetry"))

\* the attempt has produced an outcome: onError or the success path has run
HasOutcome(a) == attempts[a].fails # <<>> \/ attempts[a].succeeded

\* the writer of attempt a holds the destination file open
WriterOpen(a) == attempts[a].writable # "closed"

NoSuccess == \A a \in DOMAIN attempts : ~attempts[a].succeeded

\* ---------------------------------------------------------------- claims

\* C1: with retries = N and no attempt succeeding, load() rejects only after
\* N + 1 attempts have been started, starts none afterwards, and the message
\* reports N + 1 attempts.
C1_AttemptsThenReject ==
    (settled = "rejected" /\ NoSuccess) =>
        /\ rejection.attempts = retries + 1
        /\ startedAtReject = retries + 1
        /\ Started = retries + 1

\* C2: with onRetry given and no attempt succeeding, a rejected load() has
\* called onRetry exactly N times; onRetry only ever gets the error that ended
\* an attempt (its first failure); and the error that ended an attempt went to
\* onRetry or into the rejection, never nowhere.
C2_OnRetryPerRetriedFailure ==
    (onRetry /\ NoSuccess) =>
        /\ settled = "rejected" => OnRetryCount(Started) = retries
        /\ \A a \in DOMAIN attempts :
              /\ Sent(a, "onRetry") \subseteq {1}
              /\ attempts[a].fails # <<>> =>
                    attempts[a].fails[1].to \in {"onRetry", "reject"}

\* C3: at most one writer on the destination is open at a time, and a failed
\* attempt starts at most one new attempt.
C3_OneWriterOpen ==
    /\ \A a, b \in DOMAIN attempts : (WriterOpen(a) /\ WriterOpen(b)) => a = b
    /\ \A a \in DOMAIN attempts : attempts[a].closeTry <= 1

\* C4: an attempt's outcome is consumed once: no attempt has onError run for it
\* twice, or run after its success path.
C4_OneOutcomePerAttempt ==
    \A a \in DOMAIN attempts :
        Len(attempts[a].fails) + (IF attempts[a].succeeded THEN 1 ELSE 0) <= 1

\* C5: load() is resolved only when an attempt that took the success path has
\* had its writer emit 'close', after that attempt's cleanup().
C5_ResolveAfterClose ==
    settled = "resolved" =>
        \E a \in DOMAIN attempts :
            /\ attempts[a].succeeded
            /\ attempts[a].writable = "closed"
            /\ attempts[a].cleanups >= 1

\* load() resolved by the close of a retry's writer
C5_Witness ==
    /\ settled = "resolved"
    /\ Started = 2
    /\ attempts[2].succeeded
    /\ attempts[2].writable = "closed"

\* C6: once an attempt has succeeded, load() is not rejected, reject() is not
\* called for that attempt and it schedules no further attempt.
C6_SuccessIsFinal ==
    \A a \in DOMAIN attempts :
        attempts[a].succeeded =>
            /\ settled # "rejected"
            /\ attempts[a].closeTry = 0
            /\ Sent(a, "reject") \cup Sent(a, "ignored") = {}

\* the writer of attempt a emits 'finish' in this step while onFinish listens
FinishHandled(a) ==
    /\ a \in DOMAIN attempts
    /\ attempts[a].writable = "ending"
    /\ attempts[a].finishListener
    /\ attempts'[a].writable = "finished"

Last(seq) == seq[Len(seq)]

\* the message C7 words: the downloaded size first, the declared size second
C7_Message(downloaded, declared) ==
    [ kind |-> "Downloaded file size (p1) doesn't match content-length header (p2) in the server response",
      p1 |-> downloaded, p2 |-> declared ]

\* C7: when onFinish runs with a known non-zero declared size S and a
\* downloaded size S' # S, the attempt does not take the success path: onError
\* gets the mismatch error naming S' then S, the retry counter is incremented,
\* and the error is retried or rejected by that counter like any other.
C7_SizeMismatchFails ==
    [][\A a \in DOMAIN attempts :
         LET S == attempts[a].declaredSize
             D == attempts[a].downloadedSize
         IN (FinishHandled(a) /\ S \notin {0, NaN} /\ S # D) =>
               /\ ~attempts'[a].succeeded
               /\ attempts'[a].closeResolve = attempts[a].closeResolve
               /\ Len(attempts'[a].fails) = Len(attempts[a].fails) + 1
               /\ Last(attempts'[a].fails).err = C7_Message(D, S)
               /\ retriesDone' = retriesDone + 1
               /\ IF retriesDone' <= retries
                  THEN /\ attempts'[a].closeTry = attempts[a].closeTry + 1
                       /\ Last(attempts'[a].fails).to \in {"onRetry", "retry"}
                  ELSE /\ attempts'[a].closeTry = attempts[a].closeTry
                       /\ Last(attempts'[a].fails).to \in {"reject", "ignored"}
      ]_vars

\* a retry ended by 'finish' with 0 bytes of a declared 1, and rejected
C7_Witness ==
    /\ Started = 2
    /\ attempts[2].writable = "finished"
    /\ attempts[2].fails = <<[err |-> C7_Message(0, 1), to |-> "reject"]>>
    /\ settled = "rejected"

\* C8: an attempt that received exactly its declared size S, saw no failure
\* event and whose writer finished and closed leaves load() resolved.
C8_ExactSizeResolves ==
    \A a \in DOMAIN attempts :
        ( /\ attempts[a].succeeded
          /\ attempts[a].writable = "closed"
          /\ attempts[a].fails = <<>>
          /\ attempts[a].declaredSize \notin {0, NaN}
          /\ attempts[a].declaredSize = attempts[a].downloadedSize )
        => settled = "resolved"

\* C9: whenever the timeout timer has fired for an attempt, the request is no
\* longer in flight and onError got 'Download timeout (T) reached'; with
\* retries = 0 load() is then rejected with a message embedding that error.
C9_TimeoutRejects ==
    \A a \in DOMAIN attempts :
        \A i \in DOMAIN attempts[a].fails :
            attempts[a].fails[i].err.kind = "Download timeout (p1) reached" =>
                /\ attempts[a].fails[i].err.p1 = timeout
                /\ attempts[a].readable \notin {"requested", "responded"}
                /\ retries = 0 =>
                      /\ settled = "rejected"
                      /\ rejection.attempts = 1
                      /\ rejection.message = attempts[a].fails[i].err

\* C10: a bar is terminated at most once, never unless it was created, and
\* exactly once by the time its attempt has produced its outcome.
C10_BarTerminatedOnce ==
    \A a \in DOMAIN attempts :
        /\ attempts[a].terminates <= 1
        /\ ~attempts[a].bar => attempts[a].terminates = 0
        /\ (attempts[a].bar /\ HasOutcome(a)) => attempts[a].terminates = 1

\* C11: bar.tick() is never called on an attempt's bar after bar.terminate()
\* has been called on it.
C11_NoTickAfterTerminate ==
    \A a \in DOMAIN attempts : ~attempts[a].tickAfterTerminate

\* the 'response' listener of attempt a runs in this step with this header
ResponseHandled(a, header) ==
    /\ a \in DOMAIN attempts
    /\ attempts[a].readable # "responded"
    /\ attempts'[a].readable = "responded"
    /\ ReadableResponse(a, header)

\* C12: without a TTY, or with minSizeToShowProgress = Infinity, no attempt ever
\* has a bar; an attempt without a bar has no tick() and no terminate(); and a
\* 'response' creates a bar only for a TTY and a declared size that is a number
\* strictly above minSizeToShowProgress (never without content-length).
C12_NoBarBelowThreshold ==
    [][\A a \in DOMAIN attempts' :
         LET at == attempts'[a]
         IN /\ (~isTTY \/ minSizeToShowProgress = Infinity) => ~at.bar
            /\ ~at.bar => (~at.ticked /\ at.terminates = 0)
            /\ \A h \in Headers :
                  (ResponseHandled(a, h) /\ at.bar) =>
                      /\ isTTY
                      /\ h # NoHeader
                      /\ ParseInt(h) > minSizeToShowProgress
      ]_vars

\* a whole transfer of a declared byte under minSizeToShowProgress = Infinity
\* on a TTY, torn down, with no bar
C12_Witness ==
    /\ isTTY
    /\ minSizeToShowProgress = Infinity
    /\ \E a \in DOMAIN attempts :
          /\ attempts[a].succeeded
          /\ attempts[a].declaredSize = 1
          /\ attempts[a].downloadedSize = 1
          /\ attempts[a].cleanups = 1
          /\ ~attempts[a].bar

\* new LargeDownload({link, destination}): no other option given
OnlyLinkAndDestination ==
    [retries |-> Undefined, timeout |-> Undefined, onRetry |-> FALSE,
     minSizeToShowProgress |-> Undefined]

\* C13: a LargeDownload constructed with only link and destination has
\* timeout = 20000, retries = 1, no onRetry and minSizeToShowProgress = 0, and
\* its attempts have their timer armed once the request is out and until they
\* are torn down.
C13_DefaultTimeout ==
    opts = OnlyLinkAndDestination =>
        /\ timeout = DefaultTimeout
        /\ retries = 1
        /\ ~onRetry
        /\ minSizeToShowProgress = 0
        /\ \A a \in DOMAIN attempts :
              (attempts[a].readable = "responded" /\ attempts[a].cleanups = 0) =>
                  attempts[a].downloadTimer = "armed"

\* what cleanup() leaves of an attempt: no pipe, a writer told to end, no
\* pending timer, a bar (if any) terminated
TornDown(at) ==
    /\ ~at.piped
    /\ at.writable # "open"
    /\ at.downloadTimer # "armed"
    /\ at.bar => at.terminates >= 1

\* onError(err) runs for attempt a in this step: onRetry(err) or reject(...)
FailureDelivered(a) ==
    /\ a \in DOMAIN attempts
    /\ Len(attempts'[a].fails) > Len(attempts[a].fails)

\* the writer of attempt a emits 'close' in this step
CloseHandled(a) ==
    /\ a \in DOMAIN attempts
    /\ attempts[a].writable # "closed"
    /\ attempts'[a].writable = "closed"

\* C14: in every step that delivers an outcome of attempt a (onRetry or
\* reject() is called for it, its 'close' starts the next attempt, or its
\* 'close' resolves load()), attempt a is torn down: unpiped, writer told to
\* end, no timer of it pending, its bar (if any) terminated.
C14_TeardownBeforeOutcome ==
    [][\A a \in DOMAIN attempts :
         ( \/ FailureDelivered(a)
           \/ CloseHandled(a) /\ Len(attempts') > Len(attempts)
           \/ CloseHandled(a) /\ settled = "pending" /\ settled' = "resolved" )
         => TornDown(attempts'[a])
      ]_vars

\* C15: once an attempt has produced its outcome, no timer of it is pending,
\* and a timeout error is only ever an attempt's first and only outcome: no
\* timer is armed after teardown, survives it or fires after it.
C15_NoTimerAfterOutcome ==
    \A a \in DOMAIN attempts :
        HasOutcome(a) =>
            /\ attempts[a].downloadTimer # "armed"
            /\ \A i \in DOMAIN attempts[a].fails :
                  attempts[a].fails[i].err = TimeoutError(timeout) =>
                      (i = 1 /\ ~attempts[a].succeeded)

C17_NoSizeNoValidation ==
    [][\A a \in DOMAIN attempts :
         (FinishHandled(a) /\ attempts[a].declaredSize \in {0, NaN}) =>
             /\ attempts'[a].succeeded
             /\ attempts'[a].closeResolve = attempts[a].closeResolve + 1
             /\ attempts'[a].fails = attempts[a].fails
             /\ retriesDone' = retriesDone
      ]_vars

\* load() resolved by an attempt that wrote a byte of a response without
\* content-length
C17_Witness ==
    /\ settled = "resolved"
    /\ \E a \in DOMAIN attempts :
          /\ attempts[a].succeeded
          /\ attempts[a].fails = <<>>
          /\ attempts[a].declaredSize = NaN
          /\ attempts[a].downloadedSize = 1
          /\ attempts[a].writable = "closed"

\* C18: every onError call, whatever its error, increments the failure count
\* and is retried iff the count is then <= retries; and when load() is rejected
\* it is on a failure of the last attempt started, with the message of the
\* error that ended that attempt.
C18_OneDecisionForAllKinds ==
    [][\A a \in DOMAIN attempts :
         FailureDelivered(a) =>
             /\ retriesDone' = retriesDone + 1
             /\ Last(attempts'[a].fails).to \in {"onRetry", "retry"}
                    <=> retriesDone' <= retries
             /\ (settled = "pending" /\ settled' = "rejected") =>
                    /\ a = Len(attempts)
                    /\ rejection'.attempts = retriesDone'
                    /\ rejection'.message = attempts'[a].fails[1].err
      ]_vars

\* C19: load() eventually resolves or rejects, and never more than
\* retries + 1 attempts are started.
C19_LoadSettles ==
    /\ <>(settled # "pending")
    /\ [](Started <= retries + 1)

\* load() rejected after three failed attempts, every writer closed
C19_Witness ==
    /\ retries = 2
    /\ settled = "rejected"
    /\ Started = 3
    /\ \A a \in DOMAIN attempts :
          /\ Len(attempts[a].fails) = 1
          /\ attempts[a].writable = "closed"

\* the writer of attempt a emits 'finish' in this step
FinishEmitted(a) ==
    /\ a \in DOMAIN attempts
    /\ attempts[a].writable = "ending"
    /\ attempts'[a].writable = "finished"

\* C20: an attempt that has failed never takes the success path afterwards and
\* never gets resolve as a 'close' listener; and the 'finish' its writer emits
\* after the failure runs no handler: no onError call, no change of the retry
\* counter or of the promise.
C20_FailedNeverSucceeds ==
    [][\A a \in DOMAIN attempts :
         (attempts[a].fails # <<>> /\ ~attempts[a].succeeded) =>
             /\ ~attempts'[a].succeeded
             /\ attempts'[a].closeResolve = 0
             /\ FinishEmitted(a) =>
                   /\ attempts'[a].fails = attempts[a].fails
                   /\ retriesDone' = retriesDone
                   /\ settled' = settled
      ]_vars

\* a retried attempt whose writer has emitted the 'finish' of cleanup()'s end()
C20_Witness ==
    /\ Started = 2
    /\ attempts[2].fails = <<[err |-> StreamError, to |-> "reject"]>>
    /\ attempts[2].writable = "finished"
    /\ ~attempts[2].succeeded
    /\ attempts[2].closeResolve = 0
    /\ settled = "rejected"

====
